---- MODULE Spec2Model ----
(***************************************************************************)
(* Geofence evaluation engine of the Praesidium backend:                   *)
(* src/src/routes/geofence.ts (the HTTP handlers), src/src/utils/codes.ts  *)
(* (the spatial predicate and the schedule check), src/src/db/schema.ts    *)
(* (the geofences and geofence_events tables).                             *)
(*                                                                         *)
(* A table is a sequence of rows in insertion (rowid) order.  A handler is *)
(* a process: each `await` on the database is one step, so that requests   *)
(* interleave exactly where the code yields.                               *)
(***************************************************************************)
EXTENDS Integers, Sequences, FiniteSets, TLC

\* ------------------------------------------------------------------ bounds
\* Rows the geofences table ever receives.
MaxGeofences == 2
\* Rows the geofence_events table ever holds.
MaxEvents == 4
\* Check requests in flight at the same time.
MaxRequests == 2

NULL == "null"

\* null where the value, when present, is an object: a schedule, a row, a record.
None == <<>>
IsNone(v) == DOMAIN v = {}

\* ------------------------------------------------------------ user directory
\* The users table: two families, F1 with two parents and two children, F2
\* with a parent and a child, and a child that has joined no family yet.
\* Written by the auth and family routes only.
users ==
  [ p1 |-> [id |-> "p1", role |-> "parent", familyId |-> "F1", parentId |-> NULL],
    p2 |-> [id |-> "p2", role |-> "parent", familyId |-> "F2", parentId |-> NULL],
    c1 |-> [id |-> "c1", role |-> "child",  familyId |-> "F1", parentId |-> "p1"],
    c2 |-> [id |-> "c2", role |-> "child",  familyId |-> "F1", parentId |-> "p1"],
    c3 |-> [id |-> "c3", role |-> "child",  familyId |-> "F2", parentId |-> "p2"],
    p3 |-> [id |-> "p3", role |-> "parent", familyId |-> "F1", parentId |-> NULL],
    c4 |-> [id |-> "c4", role |-> "child",  familyId |-> NULL, parentId |-> NULL] ]

UserIds == DOMAIN users

\* ------------------------------------------------------------------- strings
\* A string is the sequence of its UTF-16 code units; JavaScript's <, <=, >=
\* on strings compare them lexicographically by code unit.
StrLess(a, b) ==
  \E i \in 1..(Len(b)) :
     /\ \A j \in 1..(i - 1) : j <= Len(a) /\ a[j] = b[j]
     /\ \/ i > Len(a)
        \/ i <= Len(a) /\ a[i] < b[i]

StrLeq(a, b) == a = b \/ StrLess(a, b)

\* String(n): the decimal digits of a number below 100.
NumberToString(n) ==
  IF n < 10 THEN <<48 + n>> ELSE <<48 + (n \div 10), 48 + (n % 10)>>

\* s.padStart(2, '0')
padStart2(s) == IF Len(s) < 2 THEN <<48>> \o s ELSE s

\* `${HH}:${MM}`
FormatTime(hours, minutes) ==
  padStart2(NumberToString(hours)) \o <<58>> \o padStart2(NumberToString(minutes))

\* ------------------------------------------------------- utils (codes.ts)
\* Earth's radius in meters.
R == 6371000

\* Positions are whole multiples of 100/R radians of latitude on one meridian
\* (longitude 0): one step of latitude is 100 m of great circle.
StepsPerRadian == R \div 100

Abs(x) == IF x < 0 THEN -x ELSE x

\* Haversine distance.  For two points of the same meridian dLon = 0,
\* a = sin^2(dLat/2) and c = |dLat|, so the distance is R * |dLat|.
calculateDistance(lat1, lon1, lat2, lon2) ==
  (R * Abs(lat2 - lat1)) \div StepsPerRadian

\* Variant: the open disk.
isInsideGeofenceMutOpen(pointLat, pointLon, geofenceLat, geofenceLon, radiusMeters) ==
  calculateDistance(pointLat, pointLon, geofenceLat, geofenceLon) < radiusMeters

isInsideGeofence(pointLat, pointLon, geofenceLat, geofenceLon, radiusMeters) ==
  calculateDistance(pointLat, pointLon, geofenceLat, geofenceLon) <= radiusMeters

\* Variant: every schedule is taken as active.
isGeofenceActiveNowMutAlways(schedule, clock) == TRUE

\* Variant: the window without its last minute.
isGeofenceActiveNowMutOpenEnd(schedule, clock) ==
  IF IsNone(schedule) THEN TRUE
  ELSE IF clock.day \notin schedule.days THEN FALSE
  ELSE LET currentTime == FormatTime(clock.hours, clock.minutes)
       IN  StrLeq(schedule.startTime, currentTime) /\ StrLess(currentTime, schedule.endTime)

\* Variant: a window whose start is later than its end runs over midnight.
isGeofenceActiveNowMutWrap(schedule, clock) ==
  IF IsNone(schedule) THEN TRUE
  ELSE IF clock.day \notin schedule.days THEN FALSE
  ELSE LET currentTime == FormatTime(clock.hours, clock.minutes)
       IN  IF StrLess(schedule.endTime, schedule.startTime)
             THEN StrLeq(schedule.startTime, currentTime) \/ StrLeq(currentTime, schedule.endTime)
             ELSE StrLeq(schedule.startTime, currentTime) /\ StrLeq(currentTime, schedule.endTime)

\* `clock` is what new Date() gives: [day, hours, minutes].
isGeofenceActiveNow(schedule, clock) ==
  IF IsNone(schedule) THEN TRUE
  ELSE IF clock.day \notin schedule.days THEN FALSE
  ELSE LET currentTime == FormatTime(clock.hours, clock.minutes)
       IN  StrLeq(schedule.startTime, currentTime) /\ StrLeq(currentTime, schedule.endTime)

\* ------------------------------------------------------------------- state
VARIABLES
  geofences,        \* the geofences table (schema.ts 83-101), rows in rowid order
  geofenceEvents,   \* the geofence_events table (schema.ts 104-112), rows in rowid order
  pc,               \* per check request: where its handler stands
  user,             \* per check request: req.user
  point,            \* per check request: req.body {latitude, longitude}
  clock,            \* per check request: the wall clock its schedule filter read
  activeGeofences,  \* per check request: the filtered geofence rows
  lastStateMap,     \* per check request: geofence id -> 'enter' | 'exit'
  idx,              \* per check request: position of the for-of loop
  events,           \* per check request: the events array of the response
  currentZones,     \* per check request: the currentZones array of the response
  startState,       \* per check request: the two tables when the request began
  alone,            \* per check request: no other request of its caller overlapped it
  last,             \* the last response sent by POST /check, with its request
  del,              \* the DELETE /:id request in flight, None when there is none
  answer            \* the last answer of PATCH /:id or DELETE /:id, with its request

reqVars == <<pc, user, point, clock, activeGeofences, lastStateMap, idx, events,
             currentZones, startState, alone>>
adminVars == <<del, answer>>
vars == <<geofences, geofenceEvents, reqVars, last, adminVars>>

Reqs == 1..MaxRequests

\* generateId() gives a fresh 21-character id: a new geofence row gets the
\* first of these ids that no row, no event and no request in flight holds.
GeofenceIds == {"g1", "g2", "g3", "g4"}
IdOrder == <<"g1", "g2", "g3", "g4">>
UsedGeofenceIds ==
  {geofences[i].id : i \in 1..Len(geofences)}
  \cup {geofenceEvents[i].geofenceId : i \in 1..Len(geofenceEvents)}
  \cup UNION {{activeGeofences[r][i].id : i \in 1..Len(activeGeofences[r])} : r \in Reqs}
  \cup (IF IsNone(del) THEN {} ELSE {del.id})
FreshIds == {i \in 1..Len(IdOrder) : IdOrder[i] \notin UsedGeofenceIds}
NewGeofenceId == IdOrder[CHOOSE i \in FreshIds : \A j \in FreshIds : i <= j]

\* ------------------------------------------------------------------- tables
Range(s) == {s[i] : i \in 1..Len(s)}

\* The timestamp column holds new Date() in whole seconds: only the order of
\* timestamps matters, so a row records whether the clock had moved on since
\* the row before it (`tick`), and its timestamp is the number of ticks so far.
Timestamp(log, i) == Cardinality({j \in 1..i : log[j].tick})

\* The rows K of `log` as a table of their own: a kept row's clock has moved
\* on when it moved on anywhere since the kept row before it.
RowsOf(log, K) ==
  LET ith(m) == CHOOSE i \in K : Cardinality({k \in K : k < i}) = m - 1
      moved(i) == \E j \in 1..i : log[j].tick /\ \A k \in K : k < i => k < j
  IN  [m \in 1..Cardinality(K) |-> [log[ith(m)] EXCEPT !.tick = moved(ith(m))]]

\* The table after delete ... where geofence_id = id.
WithoutGeofence(log, id) == RowsOf(log, {i \in 1..Len(log) : log[i].geofenceId # id})

\* findMany({where: childId = c, orderBy: desc(timestamp), limit}): every result
\* the query may give; rows of equal timestamp come in any order.
RECURSIVE DescOrders(_, _, _)
DescOrders(log, S, n) ==
  IF n = 0 \/ S = {} THEN {<<>>}
  ELSE LET top == {i \in S : \A j \in S : Timestamp(log, j) <= Timestamp(log, i)}
       IN  UNION {{<<log[i]>> \o rest : rest \in DescOrders(log, S \ {i}, n - 1)} : i \in top}

\* Variant: the query without its childId condition.
LastEventsMutNoChildFilter(log, childId, limit) ==
  DescOrders(log, 1..Len(log), limit)

LastEvents(log, childId, limit) ==
  DescOrders(log, {i \in 1..Len(log) : log[i].childId = childId}, limit)

\* The map built from lastEvents: the first enter/exit row of each geofence.
IsState(e) == e.eventType = "enter" \/ e.eventType = "exit"

BuildLastStateMap(lastEvents) ==
  LET ids == {lastEvents[i].geofenceId : i \in {k \in 1..Len(lastEvents) : IsState(lastEvents[k])}}
      first(g) == CHOOSE i \in 1..Len(lastEvents) :
                    /\ lastEvents[i].geofenceId = g /\ IsState(lastEvents[i])
                    /\ \A j \in 1..(i - 1) :
                         ~(lastEvents[j].geofenceId = g /\ IsState(lastEvents[j]))
  IN  [g \in ids |-> lastEvents[first(g)].eventType]

\* lastStateMap.get(id)
MapGet(m, k) == IF k \in DOMAIN m THEN m[k] ELSE "undefined"

\* ------------------------------------------------- POST /check (geofence.ts)
\* Variant: the query without its familyId condition.
FamilyGeofencesMutNoFamilyFilter(table, u) ==
  SelectSeq(table, LAMBDA g : g.isActive = TRUE)

\* Variant: the query without its isActive condition.
FamilyGeofencesMutNoActiveFilter(table, u) ==
  SelectSeq(table, LAMBDA g : g.familyId = u.familyId)

\* where familyId = user.familyId and isActive = true
FamilyGeofences(table, u) ==
  SelectSeq(table, LAMBDA g : g.familyId = u.familyId /\ g.isActive = TRUE)

\* Variant: no filter on childId.
ApplicableGeofencesMutAll(familyGeofences, u) == familyGeofences

\* (g) => !g.childId || g.childId === user.id
ApplicableGeofences(familyGeofences, u) ==
  SelectSeq(familyGeofences, LAMBDA g : g.childId = NULL \/ g.childId = u.id)

\* (g) => isGeofenceActiveNow(g.schedule)
ActiveGeofences(applicableGeofences, now) ==
  SelectSeq(applicableGeofences, LAMBDA g : isGeofenceActiveNow(g.schedule, now))

\* Variant: the notify flags are not looked at.
DecisionMutNoNotify(geofence, lastState, isInside) ==
  IF isInside
    THEN IF lastState # "enter" THEN "enter" ELSE "none"
    ELSE IF lastState = "enter" THEN "exit" ELSE "none"

\* Variant: no enter right after an enter row, whatever zone that row is of.
DecisionMutOnePerCall(geofence, lastState, isInside) ==
  IF isInside
    THEN IF /\ lastState # "enter" /\ geofence.notifyEnter
            /\ ~(geofenceEvents # <<>>
                  /\ geofenceEvents[Len(geofenceEvents)].eventType = "enter")
           THEN "enter" ELSE "none"
    ELSE IF lastState = "enter" /\ geofence.notifyExit THEN "exit" ELSE "none"

\* Variant: a zone is left unless it is known to have been left.
DecisionMutExitFromUnknown(geofence, lastState, isInside) ==
  IF isInside
    THEN IF lastState # "enter" /\ geofence.notifyEnter THEN "enter" ELSE "none"
    ELSE IF lastState # "exit" /\ geofence.notifyExit THEN "exit" ELSE "none"

\* The decision of one loop iteration: the event type to append, or "none".
Decision(geofence, lastState, isInside) ==
  IF isInside
    THEN IF lastState # "enter" /\ geofence.notifyEnter THEN "enter" ELSE "none"
    ELSE IF lastState = "enter" /\ geofence.notifyExit THEN "exit" ELSE "none"

NoLocals(r) ==
  /\ user' = [user EXCEPT ![r] = None]
  /\ point' = [point EXCEPT ![r] = None]
  /\ clock' = [clock EXCEPT ![r] = None]
  /\ activeGeofences' = [activeGeofences EXCEPT ![r] = <<>>]
  /\ lastStateMap' = [lastStateMap EXCEPT ![r] = <<>>]
  /\ idx' = [idx EXCEPT ![r] = 0]
  /\ events' = [events EXCEPT ![r] = <<>>]
  /\ currentZones' = [currentZones EXCEPT ![r] = <<>>]
  /\ startState' = [startState EXCEPT ![r] = None]
  /\ alone' = [alone EXCEPT ![r] = TRUE]

\* What a response leaves in `last`: the status, the keys of the JSON body,
\* and the request's locals and the tables as they were when it was sent.
Record(r, status, keys, evs, zones) ==
  [ status |-> status, keys |-> keys,
    user |-> user[r].id, point |-> point[r], clock |-> clock[r],
    activeGeofences |-> activeGeofences[r], lastStateMap |-> lastStateMap[r],
    events |-> evs, currentZones |-> zones,
    start |-> startState[r],
    end |-> [geofences |-> geofences, geofenceEvents |-> geofenceEvents] ]

\* The same for a response sent before the handler's first await.
Direct(u, p, status, keys) ==
  [ status |-> status, keys |-> keys,
    user |-> u.id, point |-> p, clock |-> None,
    activeGeofences |-> <<>>, lastStateMap |-> <<>>,
    events |-> <<>>, currentZones |-> <<>>,
    start |-> [geofences |-> geofences, geofenceEvents |-> geofenceEvents],
    end |-> [geofences |-> geofences, geofenceEvents |-> geofenceEvents] ]

\* 90 degrees of arc in steps of 100/R radians (pi as 355/113).
StepsPerQuarterTurn == (StepsPerRadian * 355) \div 226

\* Variant: a range check without its upper end.
IsFloatMutNoMax(x, min, max) == min <= x

\* isFloat({ min, max })
IsFloat(x, min, max) == min <= x /\ x <= max

\* The chains of lines 269-270, on a body whose angles are in steps.
ValidBody(p) ==
  /\ IsFloat(p.latitude, -StepsPerQuarterTurn, StepsPerQuarterTurn)
  /\ IsFloat(p.longitude, -2 * StepsPerQuarterTurn, 2 * StepsPerQuarterTurn)

\* validate([...]) of line 268 for a body that fails a chain: the request is
\* answered with a client error and the handler is not called.
Reject(u, p) ==
  /\ ~ValidBody(p)
  /\ last' = Direct(users[u], p, 400, {"errors"})
  /\ UNCHANGED <<geofences, geofenceEvents, reqVars, adminVars>>

\* Variant: every caller is taken to have a family.
HasFamilyMutAlways(u) == TRUE

\* !user.familyId, line 277.
HasFamily(u) == u.familyId # NULL

\* lines 274-279 for a caller without a family: the handler answers at once.
BeginNoFamily(u, p) ==
  /\ ValidBody(p)
  /\ ~HasFamily(users[u])
  /\ last' = Direct(users[u], p, 200, {"events", "currentZones"})
  /\ UNCHANGED <<geofences, geofenceEvents, reqVars, adminVars>>

\* authMiddleware resolves the caller, validate passes, the handler starts:
\* lines 272-279, for a caller with a family.  The least idle slot serves the
\* request.
Begin(r, u, p) ==
  /\ ValidBody(p)
  /\ HasFamily(users[u])
  /\ pc[r] = "idle"
  /\ \A q \in Reqs : q < r => pc[q] # "idle"
  /\ pc' = [pc EXCEPT ![r] = "findGeofences"]
  /\ user' = [user EXCEPT ![r] = users[u]]
  /\ point' = [point EXCEPT ![r] = p]
  /\ startState' = [startState EXCEPT ![r] =
                      [geofences |-> geofences, geofenceEvents |-> geofenceEvents]]
  /\ alone' = [q \in Reqs |->
                 IF q = r THEN \A o \in Reqs : pc[o] # "idle" => user[o].id # u
                 ELSE alone[q] /\ (pc[q] # "idle" => user[q].id # u)]
  /\ UNCHANGED <<geofences, geofenceEvents, clock, activeGeofences, lastStateMap,
                 idx, events, currentZones, last, adminVars>>

\* lines 281-297: the geofence query, then the two filters.
FindGeofences(r, now) ==
  /\ pc[r] = "findGeofences"
  /\ pc' = [pc EXCEPT ![r] = "findEvents"]
  /\ clock' = [clock EXCEPT ![r] = now]
  /\ activeGeofences' = [activeGeofences EXCEPT ![r] =
       ActiveGeofences(ApplicableGeofences(FamilyGeofences(geofences, user[r]), user[r]), now)]
  /\ UNCHANGED <<geofences, geofenceEvents, user, point, lastStateMap, idx, events,
                 currentZones, startState, alone, last, adminVars>>

\* lines 299-321: the event query and the map of last known states.
FindEvents(r) ==
  /\ pc[r] = "findEvents"
  /\ \E lastEvents \in LastEvents(geofenceEvents, user[r].id, Len(activeGeofences[r])) :
       lastStateMap' = [lastStateMap EXCEPT ![r] = BuildLastStateMap(lastEvents)]
  /\ pc' = [pc EXCEPT ![r] = "loop"]
  /\ idx' = [idx EXCEPT ![r] = 1]
  /\ UNCHANGED <<geofences, geofenceEvents, user, point, clock, activeGeofences,
                 events, currentZones, startState, alone, last, adminVars>>

\* Variant: an insert that skips a row repeating the pair's latest event type.
InsertEventMutUnlessRepeated(table, event) ==
  IF \E i \in 1..Len(table) :
        /\ table[i].geofenceId = event.geofenceId /\ table[i].childId = event.childId
        /\ table[i].eventType = event.eventType
        /\ \A j \in (i + 1)..Len(table) :
              ~(table[j].geofenceId = event.geofenceId /\ table[j].childId = event.childId)
    THEN table
    ELSE Append(table, event)

\* Variant: an insert that replaces the rows of the event's (geofence, child) pair.
InsertEventMutReplace(table, event) ==
  Append(SelectSeq(table, LAMBDA e : ~(e.geofenceId = event.geofenceId
                                        /\ e.childId = event.childId)), event)

\* Variant: an insert that is lost.
InsertEventMutLost(table, event) == table

\* await db.insert(geofenceEvents).values(event), lines 349 and 370.
InsertEvent(table, event) == Append(table, event)

\* Variant: the zone is listed only where an enter may be notified.
PushZoneMutWithEnter(zones, geofence, isInside) ==
  IF isInside /\ geofence.notifyEnter THEN Append(zones, geofence.name) ELSE zones

\* Variant: every zone of the loop is listed.
PushZoneMutAll(zones, geofence, isInside) == Append(zones, geofence.name)

\* if (isInside) currentZones.push(geofence.name), lines 334-335.
PushZone(zones, geofence, isInside) ==
  IF isInside THEN Append(zones, geofence.name) ELSE zones

\* lines 323-379: one iteration of the loop, with its insert when it emits.
\* An iteration that emits awaits its insert; one that does not touches only
\* the request's locals, so taking it as a step of its own adds no behaviour
\* of the tables.
\* `tick`: whether the clock second has changed since the last row was written.
Iterate(r, tick) ==
  /\ pc[r] = "loop"
  /\ idx[r] <= Len(activeGeofences[r])
  /\ LET geofence == activeGeofences[r][idx[r]]
         isInside == isInsideGeofence(point[r].latitude, point[r].longitude,
                       geofence.latitude, geofence.longitude, geofence.radius)
         lastState == MapGet(lastStateMap[r], geofence.id)
         decision == Decision(geofence, lastState, isInside)
     IN  /\ currentZones' = [currentZones EXCEPT ![r] = PushZone(@, geofence, isInside)]
         /\ IF decision = "none"
              THEN UNCHANGED <<geofenceEvents, events>>
              ELSE /\ Len(geofenceEvents) < MaxEvents
                   /\ geofenceEvents' = InsertEvent(geofenceEvents,
                        [ geofenceId |-> geofence.id, childId |-> user[r].id,
                          eventType |-> decision, latitude |-> point[r].latitude,
                          longitude |-> point[r].longitude,
                          tick |-> tick \/ geofenceEvents = <<>> ])
                   /\ events' = [events EXCEPT ![r] = Append(@,
                        [ geofenceId |-> geofence.id, geofenceName |-> geofence.name,
                          eventType |-> decision ])]
  /\ idx' = [idx EXCEPT ![r] = @ + 1]
  /\ UNCHANGED <<geofences, pc, user, point, clock, activeGeofences, lastStateMap,
                 startState, alone, last, adminVars>>

\* line 381: res.json({ events, currentZones }).  `keep`: whether the response
\* is recorded in `last`, for the claims about two calls in a row.
Respond(r, keep) ==
  /\ pc[r] = "loop"
  /\ idx[r] > Len(activeGeofences[r])
  /\ last' = IF keep THEN Record(r, 200, {"events", "currentZones"},
                                   events[r], currentZones[r])
             ELSE None
  /\ pc' = [pc EXCEPT ![r] = "idle"]
  /\ NoLocals(r)
  /\ UNCHANGED <<geofences, geofenceEvents, adminVars>>

\* lines 349/370 and 382-385: the insert of an iteration that emits throws;
\* the catch answers 500 and the handler ends.  `events` and `currentZones`
\* of the record are the handler's arrays at that moment, not sent.
Fail(r) ==
  /\ pc[r] = "loop"
  /\ idx[r] <= Len(activeGeofences[r])
  /\ LET geofence == activeGeofences[r][idx[r]]
         isInside == isInsideGeofence(point[r].latitude, point[r].longitude,
                       geofence.latitude, geofence.longitude, geofence.radius)
     IN  /\ Decision(geofence, MapGet(lastStateMap[r], geofence.id), isInside) # "none"
         /\ last' = Record(r, 500, {"error"}, events[r],
                           PushZone(currentZones[r], geofence, isInside))
  /\ pc' = [pc EXCEPT ![r] = "idle"]
  /\ NoLocals(r)
  /\ UNCHANGED <<geofences, geofenceEvents, adminVars>>

\* A dwell row, which the event_type column admits (schema.ts 108) and no
\* handler of the repository writes: another writer of the table records that
\* child c, last seen entering zone k, is still in it.
RecordDwell(c, k, tick) ==
  /\ Len(geofenceEvents) < MaxEvents
  /\ k \in 1..Len(geofences)
  /\ \E i \in 1..Len(geofenceEvents) :
        /\ geofenceEvents[i].geofenceId = geofences[k].id
        /\ geofenceEvents[i].childId = c
        /\ geofenceEvents[i].eventType = "enter"
        /\ \A j \in (i + 1)..Len(geofenceEvents) :
              ~(geofenceEvents[j].geofenceId = geofences[k].id /\ geofenceEvents[j].childId = c
                /\ geofenceEvents[j].eventType = "exit")
  /\ geofenceEvents' = Append(geofenceEvents,
       [ geofenceId |-> geofences[k].id, childId |-> c, eventType |-> "dwell",
         latitude |-> geofences[k].latitude, longitude |-> geofences[k].longitude,
         tick |-> tick ])
  /\ UNCHANGED <<geofences, reqVars, last, adminVars>>

\* ------------------------------------------------ POST / and PATCH /:id
\* POST /, lines 28-70, by a parent (parentOnly) of a family, for one of the
\* parent's own children when body.childId is given.  icon and color are
\* stored and never read; they are left out.
Create(p, body) ==
  /\ Len(geofences) < MaxGeofences
  /\ FreshIds # {}
  /\ users[p].role = "parent"
  /\ users[p].familyId # NULL
  /\ body.childId # NULL =>
       \E c \in UserIds : users[c].id = body.childId /\ users[c].parentId = users[p].id
  /\ geofences' = Append(geofences,
       [ id |-> NewGeofenceId, userId |-> users[p].id, familyId |-> users[p].familyId,
         childId |-> body.childId, name |-> body.name,
         latitude |-> body.latitude, longitude |-> body.longitude,
         radius |-> body.radius, type |-> "circle",
         notifyEnter |-> body.notifyEnter, notifyExit |-> body.notifyExit,
         isActive |-> TRUE, schedule |-> body.schedule ])
  /\ UNCHANGED <<geofenceEvents, reqVars, last, adminVars>>

\* What PATCH /:id and DELETE /:id leave in `answer`.
Answer(op, p, id, status) == [op |-> op, user |-> users[p].id, id |-> id, status |-> status]

\* The positions of the rows with this id (the primary key: at most one).
FindFirst(table, id) == {i \in 1..Len(table) : table[i].id = id}

\* Variant: any parent of the creator's family may change the geofence.
IsCreatorMutSameFamily(geofence, u) == geofence.familyId = u.familyId

\* geofence.userId !== user.id, lines 152 and 198.
IsCreator(geofence, u) == geofence.userId = u.id

\* The columns PATCH /:id copies from the body, lines 157-166 (icon and color
\* are left out with their columns).
PatchFields == {"name", "latitude", "longitude", "radius", "isActive",
                "notifyEnter", "notifyExit", "schedule"}

\* Variant: the body as it came is the update.
UpdatesMutWholeBody(body) == body

\* lines 156-166: the update holds the fields of the body that the handler
\* copies, and no other field the body may carry.
Updates(body) == [f \in (DOMAIN body) \cap PatchFields |-> body[f]]

\* PATCH /:id, lines 141-174, by a parent (parentOnly): 404 when no row has the
\* id, 403 when the caller is not the creator, else the fields of the update
\* replace the row's.  No other request writes the geofences table between
\* the handler's read and its update in the specifications below.
Patch(p, id, body) ==
  /\ users[p].role = "parent"
  /\ LET found == FindFirst(geofences, id)
         updates == Updates(body) IN
     IF found = {}
       THEN /\ answer' = Answer("patch", p, id, 404)
            /\ UNCHANGED geofences
       ELSE LET i == CHOOSE k \in found : TRUE IN
            IF ~IsCreator(geofences[i], users[p])
              THEN /\ answer' = Answer("patch", p, id, 403)
                   /\ UNCHANGED geofences
              ELSE /\ geofences' = [geofences EXCEPT ![i] =
                        [f \in DOMAIN geofences[i] |->
                           IF f \in DOMAIN updates THEN updates[f] ELSE geofences[i][f]]]
                   /\ answer' = Answer("patch", p, id, 200)
  /\ UNCHANGED <<geofenceEvents, reqVars, last, del>>

\* ---------------------------------------------------------- DELETE /:id
\* lines 187-200: the handler reads the geofence; 404 when no row has the id,
\* 403 when the caller is not the creator.  One DELETE is in flight at a time.
DeleteFind(p, id) ==
  /\ IsNone(del)
  /\ users[p].role = "parent"
  /\ LET found == FindFirst(geofences, id) IN
     IF found = {}
       THEN /\ answer' = Answer("delete", p, id, 404)
            /\ UNCHANGED del
       ELSE LET i == CHOOSE k \in found : TRUE IN
            IF ~IsCreator(geofences[i], users[p])
              THEN /\ answer' = Answer("delete", p, id, 403)
                   /\ UNCHANGED del
              ELSE /\ del' = [user |-> p, id |-> id, pc |-> "deleteEvents"]
                   /\ UNCHANGED answer
  /\ UNCHANGED <<geofences, geofenceEvents, reqVars, last>>

\* line 203: delete from geofence_events where geofence_id = id.
DeleteEvents ==
  /\ ~IsNone(del)
  /\ del.pc = "deleteEvents"
  /\ geofenceEvents' = WithoutGeofence(geofenceEvents, del.id)
  /\ del' = [del EXCEPT !.pc = "deleteGeofence"]
  /\ UNCHANGED <<geofences, reqVars, last, answer>>

\* lines 204-206: delete from geofences where id = id, then the answer.
DeleteGeofence ==
  /\ ~IsNone(del)
  /\ del.pc = "deleteGeofence"
  /\ geofences' = SelectSeq(geofences, LAMBDA g : g.id # del.id)
  /\ answer' = Answer("delete", del.user, del.id, 200)
  /\ del' = None
  /\ UNCHANGED <<geofenceEvents, reqVars, last>>

\* ------------------------------------------------------------ specifications
Init ==
  /\ geofences = <<>>
  /\ geofenceEvents = <<>>
  /\ pc = [r \in Reqs |-> "idle"]
  /\ user = [r \in Reqs |-> None]
  /\ point = [r \in Reqs |-> None]
  /\ clock = [r \in Reqs |-> None]
  /\ activeGeofences = [r \in Reqs |-> <<>>]
  /\ lastStateMap = [r \in Reqs |-> <<>>]
  /\ idx = [r \in Reqs |-> 0]
  /\ events = [r \in Reqs |-> <<>>]
  /\ currentZones = [r \in Reqs |-> <<>>]
  /\ startState = [r \in Reqs |-> None]
  /\ alone = [r \in Reqs |-> TRUE]
  /\ last = None
  /\ del = None
  /\ answer = None

\* No check request is in flight.
Quiet == \A r \in Reqs : pc[r] = "idle"

\* Latitudes (in steps of 100 m) the devices report, all on longitude 0.
Points == {[latitude |-> l, longitude |-> 0] : l \in {0, 1, 4}}

Monday9 == [day |-> 1, hours |-> 9, minutes |-> 0]
Monday22 == [day |-> 1, hours |-> 22, minutes |-> 0]
Sunday9 == [day |-> 0, hours |-> 9, minutes |-> 0]

\* Weekdays, 08:00 to 17:00.
SchoolHours == [days |-> {1, 2, 3, 4, 5}, startTime |-> FormatTime(8, 0),
                endTime |-> FormatTime(17, 0)]

Home == [name |-> "Home", latitude |-> 0, longitude |-> 0, radius |-> 100,
         childId |-> NULL, notifyEnter |-> TRUE, notifyExit |-> TRUE, schedule |-> None]
School == [name |-> "School", latitude |-> 2, longitude |-> 0, radius |-> 100,
           childId |-> NULL, notifyEnter |-> TRUE, notifyExit |-> TRUE,
           schedule |-> SchoolHours]

\* The steps of a check request after it began.
CheckSteps(Moments, Ticks, keep) ==
  \E r \in Reqs :
     \/ \E now \in Moments : FindGeofences(r, now)
     \/ FindEvents(r)
     \/ \E tick \in Ticks : Iterate(r, tick)
     \/ Respond(r, keep)

\* One family, one child, two overlapping zones, one of them with a schedule;
\* check requests never overlap.
Next ==
  \/ \E body \in {Home, School} :
       /\ Quiet
       /\ \A i \in 1..Len(geofences) : geofences[i].name # body.name
       /\ Create("p1", body)
  \/ \E p \in Points : Quiet /\ Begin(1, "c1", p)
  \/ CheckSteps({Monday9, Monday22}, BOOLEAN, TRUE)

Spec == Init /\ [][Next]_vars

\* Two families, zones scoped to one child, zones with a schedule, zones
\* switched off by PATCH: all at one place, so that only the filters decide.
\* Check requests never overlap.
Room == [name |-> "Room", latitude |-> 0, longitude |-> 0, radius |-> 100,
         childId |-> "c1", notifyEnter |-> TRUE, notifyExit |-> TRUE, schedule |-> None]
Class == [name |-> "Class", latitude |-> 0, longitude |-> 0, radius |-> 100,
          childId |-> NULL, notifyEnter |-> TRUE, notifyExit |-> TRUE,
          schedule |-> SchoolHours]
Park == [name |-> "Park", latitude |-> 0, longitude |-> 0, radius |-> 100,
         childId |-> NULL, notifyEnter |-> TRUE, notifyExit |-> TRUE, schedule |-> None]

GatePoints == {[latitude |-> l, longitude |-> 0] : l \in {0, 4}}

NextGate ==
  \/ \E body \in {Room, Class} :
       /\ Quiet
       /\ \A i \in 1..Len(geofences) : geofences[i].name # body.name
       /\ Create("p1", body)
  \/ \E body \in {Park} :
       /\ Quiet
       /\ \A i \in 1..Len(geofences) : geofences[i].name # body.name
       /\ Create("p2", body)
  \/ \E p \in {"p1", "p2"}, id \in GeofenceIds :
       Quiet /\ Patch(p, id, [isActive |-> FALSE]) /\ geofences' # geofences
  \/ \E u \in {"c1", "c2"}, p \in GatePoints : Quiet /\ Begin(1, u, p)
  \/ CheckSteps({Monday9, Monday22, Sunday9}, {TRUE}, FALSE)

SpecGate == Init /\ [][NextGate]_vars

\* Two families with one zone each, three children: check requests of the same child and
\* of different children overlap freely.
NextRace ==
  \/ \E body \in {Home} :
       /\ Quiet
       /\ \A i \in 1..Len(geofences) : geofences[i].name # body.name
       /\ Create("p1", body)
  \/ \E body \in {Park} :
       /\ Quiet
       /\ \A i \in 1..Len(geofences) : geofences[i].name # body.name
       /\ Create("p2", body)
  \/ \E r \in Reqs, p \in GatePoints : Begin(r, "c1", p)
  \/ \E r \in Reqs, u \in {"c2", "c3"} : Begin(r, u, [latitude |-> 0, longitude |-> 0])
  \/ CheckSteps({Monday9}, {TRUE}, FALSE)

SpecRace == Init /\ [][NextRace]_vars

\* One family with overlapping zones, some of them silent on enter or on
\* exit, a zone created twice included; a child of the family, a child
\* without a family, bodies out of range, inserts that fail.  Check requests
\* never overlap.
Hush == [name |-> "Hush", latitude |-> 1, longitude |-> 0, radius |-> 100,
         childId |-> NULL, notifyEnter |-> FALSE, notifyExit |-> TRUE, schedule |-> None]
Stay == [name |-> "Stay", latitude |-> 0, longitude |-> 0, radius |-> 150,
         childId |-> NULL, notifyEnter |-> TRUE, notifyExit |-> FALSE, schedule |-> None]

ZonePoints == {[latitude |-> l, longitude |-> 0] : l \in {1, 2, 4}}

\* Bodies with a latitude or a longitude just beyond the ends of its range.
BadPoints ==
  {[latitude |-> l, longitude |-> 0] : l \in {-StepsPerQuarterTurn - 1, StepsPerQuarterTurn + 1}}
  \cup {[latitude |-> 1, longitude |-> l] :
           l \in {-2 * StepsPerQuarterTurn - 1, 2 * StepsPerQuarterTurn + 1}}

NextZones ==
  \/ \E body \in {Home, Hush, Stay} : Quiet /\ Create("p1", body)
  \/ \E u \in {"c1", "c4"}, p \in ZonePoints \cup BadPoints : Quiet /\ Begin(1, u, p)
  \/ \E u \in {"c1", "c4"}, p \in ZonePoints \cup BadPoints : Quiet /\ BeginNoFamily(u, p)
  \/ \E u \in {"c1", "c4"}, p \in ZonePoints \cup BadPoints : Quiet /\ Reject(u, p)
  \/ \E r \in Reqs : Fail(r)
  \/ CheckSteps({Monday9}, {TRUE}, FALSE)

SpecZones == Init /\ [][NextZones]_vars

\* One zone of family F1 at a time, made by p1; p1, the other parent of the
\* family and a parent of another family change and delete it while a
\* child's check request runs.
\* Bodies of PATCH /:id: a switch-off, a change of radius and flags, and a
\* body that names the columns the handler does not copy.
PatchBodies ==
  { [isActive |-> FALSE],
    [radius |-> 200, notifyExit |-> FALSE],
    [name |-> "Den", id |-> "g2", userId |-> "p3", familyId |-> "F2",
     childId |-> "c2", type |-> "polygon"] }

NextAdmin ==
  \/ \E body \in {Home} :
       /\ Quiet /\ IsNone(del)
       /\ geofences = <<>> /\ geofenceEvents = <<>>
       /\ Create("p1", body)
  \/ \E p \in {"p1", "p2", "p3"}, body \in PatchBodies : IsNone(del) /\ Patch(p, "g1", body)
  \/ \E p \in {"p1", "p2", "p3"} : DeleteFind(p, "g1")
  \/ DeleteEvents
  \/ DeleteGeofence
  \/ \E p \in GatePoints : Quiet /\ Begin(1, "c1", p)
  \/ CheckSteps({Monday9}, {TRUE}, FALSE)

SpecAdmin == Init /\ [][NextAdmin]_vars

\* One family, one child, three zones at one place: one with no schedule, one
\* open on weekdays from 08:00 to 17:00, one whose window starts at 22:00 and
\* ends at 06:00 on every day.  The clock stands a minute before, at, and a
\* minute after the ends of the windows.  Check requests never overlap.
NightHours == [days |-> 0..6, startTime |-> FormatTime(22, 0), endTime |-> FormatTime(6, 0)]

Night == [name |-> "Night", latitude |-> 0, longitude |-> 0, radius |-> 100,
          childId |-> NULL, notifyEnter |-> TRUE, notifyExit |-> TRUE,
          schedule |-> NightHours]

Moments ==
  {[day |-> 1, hours |-> 7, minutes |-> 59], [day |-> 1, hours |-> 8, minutes |-> 0],
   [day |-> 1, hours |-> 17, minutes |-> 0], [day |-> 1, hours |-> 17, minutes |-> 1],
   [day |-> 1, hours |-> 3, minutes |-> 0], Monday22, Sunday9}

NextSchedule ==
  \/ \E body \in {Home, Class, Night} :
       /\ Quiet
       /\ \A i \in 1..Len(geofences) : geofences[i].name # body.name
       /\ Create("p1", body)
  \/ \E p \in GatePoints : Quiet /\ Begin(1, "c1", p)
  \/ CheckSteps(Moments, {TRUE}, FALSE)

SpecSchedule == Init /\ [][NextSchedule]_vars

\* One family, one child, one zone; between two check requests the table may
\* receive a dwell row of the child.  Every row has a timestamp of its own.
NextDwell ==
  \/ \E body \in {Home} :
       /\ Quiet
       /\ \A i \in 1..Len(geofences) : geofences[i].name # body.name
       /\ Create("p1", body)
  \/ \E p \in Points : Quiet /\ Begin(1, "c1", p)
  \/ \E k \in 1..MaxGeofences : Quiet /\ RecordDwell("c1", k, TRUE)
  \/ CheckSteps({Monday9}, {TRUE}, FALSE)

SpecDwell == Init /\ [][NextDwell]_vars

\* One family, one child, a zone that stays and a second zone at the same
\* place that its creator deletes while the child's check request runs; the
\* child's check requests never overlap each other.
NextOrphan ==
  \/ \E body \in {Home} :
       /\ Quiet /\ IsNone(del)
       /\ geofences = <<>> /\ geofenceEvents = <<>>
       /\ Create("p1", body)
  \/ \E body \in {Room} :
       /\ Quiet /\ IsNone(del)
       /\ Len(geofences) = 1 /\ geofenceEvents = <<>>
       /\ Create("p1", body)
  \/ DeleteFind("p1", "g2")
  \/ DeleteEvents
  \/ DeleteGeofence
  \/ \E p \in GatePoints : Quiet /\ Begin(1, "c1", p)
  \/ CheckSteps({Monday9}, {TRUE}, FALSE)

SpecOrphan == Init /\ [][NextOrphan]_vars

\* One family, one child walking between two zones that overlap in part:
\* some points are in one zone only, some in both, some in none.  Every row
\* has a timestamp of its own; check requests never overlap.
NextWalk ==
  \/ \E body \in {Home, School} :
       /\ Quiet
       /\ \A i \in 1..Len(geofences) : geofences[i].name # body.name
       /\ Create("p1", body)
  \/ \E p \in Points : Quiet /\ Begin(1, "c1", p)
  \/ CheckSteps({Monday9}, {TRUE}, FALSE)

SpecWalk == Init /\ [][NextWalk]_vars

\* -------------------------------------------------------------------- claims
\* The enter/exit rows of the pair (g, c) in `log`.
PairStates(log, g, c) ==
  {i \in 1..Len(log) : log[i].geofenceId = g /\ log[i].childId = c /\ IsState(log[i])}

\* The event types of the most recent enter/exit rows of (g, c): one type,
\* two when an enter and an exit of the pair carry the same latest timestamp,
\* none when the pair has no enter/exit row.
TrueLastStates(log, g, c) ==
  LET S == PairStates(log, g, c)
  IN  {log[i].eventType : i \in {k \in S : \A j \in S : Timestamp(log, j) <= Timestamp(log, k)}}

\* No two rows of `log` carry the same timestamp.
DistinctTimestamps(log) == \A i \in 1..Len(log) : log[i].tick

\* The loop of request r has run to its end: the response is what it holds.
Finished(r) == pc[r] = "loop" /\ idx[r] > Len(activeGeofences[r])

\* The events of `evs` for geofence g.
EventsFor(evs, g) == SelectSeq(evs, LAMBDA e : e.geofenceId = g)

\* C1: in every evaluation, the last-known state used for each geofence that
\* passed the filters is the type of the most recent enter/exit row of
\* (geofence, child) in the whole table, and is absent only when the pair has
\* no such row.
C1_LastStateIsMostRecent ==
  [][\A r \in Reqs :
       (pc[r] = "findEvents" /\ pc'[r] = "loop") =>
         \A i \in 1..Len(activeGeofences[r]) :
            LET g == activeGeofences[r][i].id
                T == TrueLastStates(geofenceEvents, g, user[r].id)
                used == MapGet(lastStateMap'[r], g)
            IN  IF T = {} THEN used = "undefined" ELSE used \in T]_vars

\* C2: an evaluation that starts from the tables the previous response left,
\* for the same caller, point and clock, returns no event and appends no row
\* (stated for tables whose rows all carry different timestamps).
C2_Idempotent ==
  \A r \in Reqs :
     ( /\ Finished(r)
       /\ ~IsNone(last)
       /\ last.user = user[r].id
       /\ last.point = point[r]
       /\ last.clock = clock[r]
       /\ startState[r] = last.end
       /\ geofences = last.end.geofences
       /\ DistinctTimestamps(geofenceEvents) )
     => /\ events[r] = <<>>
        /\ geofenceEvents = startState[r].geofenceEvents

\* C3: the table never holds two enter rows of one (geofence, child) pair
\* with no exit row of that pair between them (stated for tables whose rows
\* all carry different timestamps; check requests do not overlap).
C3_NoEnterAfterEnter ==
  \A i, j \in 1..Len(geofenceEvents) :
     ( /\ i < j
       /\ DistinctTimestamps(geofenceEvents)
       /\ geofenceEvents[i].eventType = "enter"
       /\ geofenceEvents[j].eventType = "enter"
       /\ geofenceEvents[i].geofenceId = geofenceEvents[j].geofenceId
       /\ geofenceEvents[i].childId = geofenceEvents[j].childId )
     => \E k \in (i + 1)..(j - 1) :
           /\ geofenceEvents[k].eventType = "exit"
           /\ geofenceEvents[k].geofenceId = geofenceEvents[i].geofenceId
           /\ geofenceEvents[k].childId = geofenceEvents[i].childId

\* The point lies in the zone, by the zone's own center and radius.
Inside(p, g) ==
  isInsideGeofence(p.latitude, p.longitude, g.latitude, g.longitude, g.radius)

\* The caller has no row at all in `log`.
NoHistory(log, c) == \A i \in 1..Len(log) : log[i].childId # c

\* A zone of the caller's family, switched on, for every child or for the
\* caller, with no schedule and both notifications on.
PlainZone(g, u) ==
  /\ g.isActive /\ g.familyId = u.familyId
  /\ (g.childId = NULL \/ g.childId = u.id)
  /\ IsNone(g.schedule) /\ g.notifyEnter /\ g.notifyExit

EventTypes(evs, g) == [i \in 1..Len(EventsFor(evs, g)) |-> EventsFor(evs, g)[i].eventType]

\* C4: for a plain zone and a caller with no rows, a first evaluation with a
\* point inside returns exactly one enter event for the zone and its name in
\* currentZones; the evaluation that follows it, with a point outside,
\* returns exactly one exit event for the zone and not its name (the second
\* part stated for tables whose rows all carry different timestamps).
C4_EnterThenExit ==
  \A r \in Reqs : \A k \in 1..Len(geofences) :
     LET g == geofences[k] IN
     ( /\ Finished(r)
       /\ PlainZone(g, user[r])
       /\ geofences = startState[r].geofences )
     => /\ ( /\ NoHistory(startState[r].geofenceEvents, user[r].id)
             /\ Inside(point[r], g) )
           => /\ EventTypes(events[r], g.id) = <<"enter">>
              /\ g.name \in Range(currentZones[r])
        /\ ( /\ ~IsNone(last)
             /\ last.user = user[r].id
             /\ startState[r] = last.end
             /\ last.start.geofences = last.end.geofences
             /\ NoHistory(last.start.geofenceEvents, user[r].id)
             /\ DistinctTimestamps(startState[r].geofenceEvents)
             /\ Inside(last.point, g)
             /\ ~Inside(point[r], g) )
           => /\ EventTypes(events[r], g.id) = <<"exit">>
              /\ g.name \notin Range(currentZones[r])

\* C5: once the table holds an enter/exit row of a (geofence, child) pair, no
\* evaluation of that child reads the pair's state as unknown.
C5_UnknownNeverReentered ==
  \A r \in Reqs :
     pc[r] = "loop" =>
       \A i \in 1..Len(activeGeofences[r]) :
          PairStates(startState[r].geofenceEvents, activeGeofences[r][i].id, user[r].id) # {}
            => MapGet(lastStateMap[r], activeGeofences[r][i].id) # "undefined"

\* The rows appended since request r began.
AppendedSince(r) ==
  SubSeq(geofenceEvents, Len(startState[r].geofenceEvents) + 1, Len(geofenceEvents))

\* "HH:MM" as minutes since midnight.
ParseMinutes(t) == ((t[1] - 48) * 10 + (t[2] - 48)) * 60 + (t[4] - 48) * 10 + (t[5] - 48)

\* The weekday is not one of the schedule's, or the time of day lies before
\* the start or after the end of its window.
ScheduleExcludes(schedule, now) ==
  \/ now.day \notin schedule.days
  \/ now.hours * 60 + now.minutes < ParseMinutes(schedule.startTime)
  \/ now.hours * 60 + now.minutes > ParseMinutes(schedule.endTime)

\* The rows of the table that belong to family f.
OwnFamilyRows(table, f) == SelectSeq(table, LAMBDA g : g.familyId = f)

\* No event, no row and no currentZones entry of request r is for zone g.
Silent(r, g) ==
  /\ EventsFor(events[r], g.id) = <<>>
  /\ EventsFor(AppendedSince(r), g.id) = <<>>
  /\ g.name \notin Range(currentZones[r])

C8_IsolatedState ==
  /\ \A r \in Reqs : pc[r] = "loop" =>
        \A k \in 1..Len(geofences) :
           geofences[k].familyId # user[r].familyId => Silent(r, geofences[k])
  /\ \A i \in 1..Len(geofenceEvents) : \A k \in 1..Len(geofences) :
        geofences[k].id = geofenceEvents[i].geofenceId
          => geofences[k].familyId = users[geofenceEvents[i].childId].familyId

\* C8: an evaluation returns and appends nothing for a zone of another family,
\* and the zones it evaluates are those it would read from a table holding
\* its own family's rows only.
C8_FamilyIsolation ==
  [][ /\ \A r \in Reqs :
           (pc[r] = "findGeofences" /\ pc'[r] = "findEvents") =>
              activeGeofences'[r] =
                ActiveGeofences(
                  ApplicableGeofences(
                    FamilyGeofences(OwnFamilyRows(geofences, user[r].familyId), user[r]),
                    user[r]),
                  clock'[r])
      /\ C8_IsolatedState' ]_vars

C8_Witness ==
  \E r \in Reqs : \E k \in 1..Len(geofences) :
     /\ Finished(r)
     /\ events[r] # <<>>
     /\ geofences[k].familyId # user[r].familyId
     /\ geofences[k].isActive
     /\ IsNone(geofences[k].schedule)
     /\ Inside(point[r], geofences[k])

\* C9: a zone whose childId is another child's gets no event, no row and no
\* currentZones entry from the caller's evaluation, and no row of the table
\* pairs a child-scoped zone with another child.
C9_ScopeGating ==
  /\ \A r \in Reqs : pc[r] = "loop" =>
        \A k \in 1..Len(geofences) :
           (geofences[k].childId # NULL /\ geofences[k].childId # user[r].id)
             => Silent(r, geofences[k])
  /\ \A i \in 1..Len(geofenceEvents) : \A k \in 1..Len(geofences) :
        (geofences[k].id = geofenceEvents[i].geofenceId /\ geofences[k].childId # NULL)
          => geofenceEvents[i].childId = geofences[k].childId

C9_Witness ==
  \E r \in Reqs : \E k \in 1..Len(geofences) :
     /\ Finished(r)
     /\ user[r].id = "c2"
     /\ geofences[k].childId = "c1"
     /\ geofences[k].familyId = user[r].familyId
     /\ geofences[k].isActive
     /\ IsNone(geofences[k].schedule)
     /\ Inside(point[r], geofences[k])
     /\ PairStates(geofenceEvents, geofences[k].id, "c1") # {}

\* C10: a switched-on zone whose schedule excludes the clock of the evaluation
\* gets no event, no row and no currentZones entry from it, wherever the
\* point is and whatever the zone's last known state.
C10_ScheduleGating ==
  \A r \in Reqs : pc[r] = "loop" =>
     \A k \in 1..Len(geofences) :
        ( /\ geofences = startState[r].geofences
          /\ geofences[k].isActive
          /\ ~IsNone(geofences[k].schedule)
          /\ ScheduleExcludes(geofences[k].schedule, clock[r]) )
        => Silent(r, geofences[k])

C10_Witness ==
  \E r \in Reqs : \E k \in 1..Len(geofences) :
     /\ Finished(r)
     /\ geofences[k].isActive
     /\ geofences[k].familyId = user[r].familyId
     /\ ~IsNone(geofences[k].schedule)
     /\ clock[r].day \in geofences[k].schedule.days
     /\ ScheduleExcludes(geofences[k].schedule, clock[r])
     /\ Inside(point[r], geofences[k])
     /\ TrueLastStates(geofenceEvents, geofences[k].id, user[r].id) = {"enter"}

OwnRows(log, c) == RowsOf(log, {i \in 1..Len(log) : log[i].childId = c})

\* A row without its timestamp.
Fact(e) == [geofenceId |-> e.geofenceId, childId |-> e.childId,
            eventType |-> e.eventType, latitude |-> e.latitude,
            longitude |-> e.longitude]
Facts(log) == [i \in 1..Len(log) |-> Fact(log[i])]

\* The loop run in one piece from position i on zones gs, last states m and
\* point p for caller c: the events, the zone names and the rows it gives.
RECURSIVE Alone(_, _, _, _, _)
Alone(gs, m, p, c, i) ==
  IF i > Len(gs) THEN [events |-> <<>>, currentZones |-> <<>>, rows |-> <<>>]
  ELSE LET g == gs[i]
           d == Decision(g, MapGet(m, g.id), Inside(p, g))
           rest == Alone(gs, m, p, c, i + 1)
       IN  [ events |-> IF d = "none" THEN rest.events
                        ELSE <<[geofenceId |-> g.id, geofenceName |-> g.name,
                                eventType |-> d]>> \o rest.events,
             currentZones |-> IF Inside(p, g) THEN <<g.name>> \o rest.currentZones
                              ELSE rest.currentZones,
             rows |-> IF d = "none" THEN rest.rows
                      ELSE <<[geofenceId |-> g.id, childId |-> c, eventType |-> d,
                              latitude |-> p.latitude, longitude |-> p.longitude]>>
                           \o rest.rows ]

\* C6: a loop iteration whose decision, taken from the states read before the
\* loop, is to emit an enter appends that enter row whatever the table holds
\* by then; so two overlapping requests of one child that both read a state
\* other than enter both append an enter (the witness).
C6_AppendIsUnconditional ==
  [][\A r \in Reqs :
       (pc[r] = "loop" /\ idx[r] <= Len(activeGeofences[r]) /\ idx'[r] = idx[r] + 1) =>
          LET g == activeGeofences[r][idx[r]]
              d == Decision(g, MapGet(lastStateMap[r], g.id), Inside(point[r], g))
          IN  d = "enter" =>
                /\ Len(geofenceEvents') = Len(geofenceEvents) + 1
                /\ Fact(geofenceEvents'[Len(geofenceEvents')]) =
                     [geofenceId |-> g.id, childId |-> user[r].id, eventType |-> "enter",
                      latitude |-> point[r].latitude, longitude |-> point[r].longitude]]_vars

\* Two requests of one child are in flight, both read no state for the zone
\* from a table without a row of the child, both appended an enter: the
\* child's rows are two enters of one zone in a row.
C6_Witness ==
  \E r1, r2 \in Reqs : \E k \in 1..Len(geofences) :
     LET g == geofences[k].id IN
     /\ r1 # r2
     /\ pc[r1] = "loop" /\ pc[r2] = "loop"
     /\ user[r1].id = user[r2].id
     /\ MapGet(lastStateMap[r1], g) = "undefined"
     /\ MapGet(lastStateMap[r2], g) = "undefined"
     /\ EventTypes(events[r1], g) = <<"enter">>
     /\ EventTypes(events[r2], g) = <<"enter">>
     /\ LET own == OwnRows(geofenceEvents, user[r1].id)
        IN  /\ Len(own) = 2
            /\ \A i \in 1..2 : own[i].geofenceId = g /\ own[i].eventType = "enter"

\* C7: a request that no request of the same child overlapped returns the
\* events and currentZones, and leaves the child the rows, that the loop run
\* in one piece gives on the zones it read and on the child's own rows as
\* they were when it began, whatever other children's requests did meanwhile.
C7_OtherChildrenDoNotInterfere ==
  \A r \in Reqs :
     (Finished(r) /\ alone[r]) =>
        LET c == user[r].id
            own == OwnRows(startState[r].geofenceEvents, c)
        IN  \E lastEvents \in LastEvents(own, c, Len(activeGeofences[r])) :
               LET res == Alone(activeGeofences[r], BuildLastStateMap(lastEvents),
                                point[r], c, 1)
               IN  /\ events[r] = res.events
                   /\ currentZones[r] = res.currentZones
                   /\ Facts(OwnRows(geofenceEvents, c)) = Facts(own) \o res.rows

\* A request of one child ends with an event, after a request of another
\* child appended a row while it was running.
C7_Witness ==
  \E r \in Reqs :
     /\ Finished(r) /\ alone[r]
     /\ events[r] # <<>>
     /\ PairStates(startState[r].geofenceEvents, events[r][1].geofenceId, user[r].id) # {}
     /\ \E i \in 1..Len(AppendedSince(r)) :
           /\ AppendedSince(r)[i].childId # user[r].id
           /\ \E j \in (i + 1)..Len(AppendedSince(r)) :
                 AppendedSince(r)[j].childId = user[r].id

\* The rows request r of a caller has appended for zone id since it began
\* (check requests do not overlap).
RowsFor(r, id) == SelectSeq(AppendedSince(r), LAMBDA e : e.geofenceId = id)

\* C11: a zone that passed the filters with notifyEnter off, the point inside
\* and a last known state other than enter gets no event and no row, and its
\* name is in currentZones; a zone with notifyExit off, the point outside and
\* the last known state enter gets no event and no row.
C11_NotificationSuppression ==
  \A r \in Reqs : Finished(r) =>
     \A i \in 1..Len(activeGeofences[r]) :
        LET g == activeGeofences[r][i]
            lastState == MapGet(lastStateMap[r], g.id)
        IN  /\ (~g.notifyEnter /\ Inside(point[r], g) /\ lastState # "enter")
                 => /\ EventsFor(events[r], g.id) = <<>>
                    /\ RowsFor(r, g.id) = <<>>
                    /\ g.name \in Range(currentZones[r])
            /\ (~g.notifyExit /\ ~Inside(point[r], g) /\ lastState = "enter")
                 => /\ EventsFor(events[r], g.id) = <<>>
                    /\ RowsFor(r, g.id) = <<>>

\* One evaluation meets both cases: the point is in a zone silent on enter that
\* the child was never in, and has left a zone silent on exit that it entered.
C11_Witness ==
  \E r \in Reqs : \E i, j \in 1..Len(activeGeofences[r]) :
     LET g == activeGeofences[r][i]
         h == activeGeofences[r][j]
     IN  /\ Finished(r)
         /\ ~g.notifyEnter /\ Inside(point[r], g)
         /\ MapGet(lastStateMap[r], g.id) = "undefined"
         /\ ~h.notifyExit /\ ~Inside(point[r], h)
         /\ MapGet(lastStateMap[r], h.id) = "enter"
         /\ TrueLastStates(geofenceEvents, h.id, user[r].id) = {"enter"}

\* The zone passes the three filters for caller u at clock `now`.
PassesFilters(g, u, now) ==
  /\ g.isActive /\ g.familyId = u.familyId
  /\ (g.childId = NULL \/ g.childId = u.id)
  /\ (IsNone(g.schedule) \/ ~ScheduleExcludes(g.schedule, now))

\* The names of the zones of gs that hold the point, one entry per zone.
RECURSIVE NamesHolding(_, _)
NamesHolding(gs, p) ==
  IF gs = <<>> THEN <<>>
  ELSE (IF Inside(p, Head(gs)) THEN <<Head(gs).name>> ELSE <<>>) \o NamesHolding(Tail(gs), p)

\* C12: currentZones holds one entry, the name, for each zone that passes the
\* filters and holds the point, whatever its notify flags and last known
\* state; each zone gets its own decision from its own last known state.
C12_CurrentZones ==
  \A r \in Reqs : Finished(r) =>
     /\ activeGeofences[r] =
          SelectSeq(geofences, LAMBDA g : PassesFilters(g, user[r], clock[r]))
     /\ currentZones[r] = NamesHolding(activeGeofences[r], point[r])
     /\ \A i \in 1..Len(activeGeofences[r]) :
           LET g == activeGeofences[r][i]
               lastState == MapGet(lastStateMap[r], g.id)
           IN  EventTypes(events[r], g.id) =
                 IF Inside(point[r], g) /\ lastState # "enter" /\ g.notifyEnter
                   THEN <<"enter">>
                 ELSE IF ~Inside(point[r], g) /\ lastState = "enter" /\ g.notifyExit
                   THEN <<"exit">>
                 ELSE <<>>

\* The point is in two overlapping zones, one silent on enter that gets no
\* event and one already entered: both are listed.
C12_Witness ==
  \E r \in Reqs : \E i, j \in 1..Len(activeGeofences[r]) :
     LET g == activeGeofences[r][i]
         h == activeGeofences[r][j]
     IN  /\ Finished(r)
         /\ i # j
         /\ Inside(point[r], g) /\ Inside(point[r], h)
         /\ ~g.notifyEnter
         /\ MapGet(lastStateMap[r], h.id) = "enter"
         /\ events[r] = <<>>
         /\ Len(currentZones[r]) = 2

\* C13: a caller without a family is answered at once, with a success whose
\* events and currentZones are empty: its request never stands at a database
\* read, and the step that answers it leaves both tables as they are.
C13_FamilyLess ==
  [][ /\ \A r \in Reqs : pc'[r] # "idle" => user'[r].familyId # NULL
      /\ ( /\ last' # last
           /\ ~IsNone(last')
           /\ users[last'.user].familyId = NULL
           /\ last'.status # 400 )
         => /\ last'.status = 200
            /\ last'.keys = {"events", "currentZones"}
            /\ last'.events = <<>>
            /\ last'.currentZones = <<>>
            /\ geofences' = geofences
            /\ geofenceEvents' = geofenceEvents ]_vars

\* A caller without a family was answered while the tables hold a zone around
\* its point and rows of another child.
C13_Witness ==
  /\ ~IsNone(last)
  /\ last.user = "c4"
  /\ last.status = 200
  /\ last.events = <<>>
  /\ geofenceEvents # <<>>
  /\ \E k \in 1..Len(geofences) : Inside(last.point, geofences[k])

\* The rows the events of `evs` stand for, for caller c at point p.
RowsOfEvents(evs, c, p) ==
  [i \in 1..Len(evs) |->
     [geofenceId |-> evs[i].geofenceId, childId |-> c, eventType |-> evs[i].eventType,
      latitude |-> p.latitude, longitude |-> p.longitude]]

\* C16: when the loop has ended and the response is about to be sent, the rows
\* appended since the request began are, one for one and in order, the
\* events it returns, each with the caller as childId.
C16_EventsAreTheAppendedRows ==
  \A r \in Reqs : Finished(r) =>
     Facts(AppendedSince(r)) = RowsOfEvents(events[r], user[r].id, point[r])

\* A response with two events, from a table that held a row already.
C16_Witness ==
  \E r \in Reqs :
     /\ Finished(r)
     /\ Len(events[r]) = 2
     /\ events[r][1].geofenceId # events[r][2].geofenceId
     /\ startState[r].geofenceEvents # <<>>

\* C17: the step in which an insert fails answers 500 with no events list,
\* ends the request and leaves the table as it is: the rows the request
\* appended before the failure, and only they, are in it.
C17_PartialEmission ==
  [][ ( /\ last' # last
        /\ ~IsNone(last')
        /\ last'.status = 500 )
      => /\ last'.keys = {"error"}
         /\ geofenceEvents' = geofenceEvents
         /\ geofences' = geofences
         /\ Quiet'
         /\ Facts(SubSeq(geofenceEvents', Len(last'.start.geofenceEvents) + 1,
                         Len(geofenceEvents')))
              = RowsOfEvents(last'.events, last'.user, last'.point)
         /\ SubSeq(geofenceEvents', 1, Len(last'.start.geofenceEvents))
              = last'.start.geofenceEvents ]_vars

\* A request failed on its second insert: the row of its first is kept.
C17_Witness ==
  /\ ~IsNone(last)
  /\ last.status = 500
  /\ Len(last.events) = 1
  /\ Len(last.end.geofenceEvents) = Len(last.start.geofenceEvents) + 1

\* The latitude and the longitude of the body lie in [-90, 90] and in
\* [-180, 180] degrees.
InRange(p) ==
  /\ Abs(p.latitude) <= StepsPerQuarterTurn
  /\ Abs(p.longitude) <= 2 * StepsPerQuarterTurn

\* C18: a body out of range never reaches the handler, and the step that
\* answers it changes no row and no request.
C18_ValidationRejects ==
  [][ /\ \A r \in Reqs : pc'[r] # "idle" => InRange(point'[r])
      /\ ( /\ last' # last
           /\ ~IsNone(last')
           /\ ~InRange(last'.point) )
         => /\ last'.status = 400
            /\ geofences' = geofences
            /\ geofenceEvents' = geofenceEvents
            /\ reqVars' = reqVars ]_vars

\* A body out of range was answered while the tables hold zones and rows.
C18_Witness ==
  /\ ~IsNone(last)
  /\ last.status = 400
  /\ ~InRange(last.point)
  /\ last.user = "c1"
  /\ geofences # <<>>
  /\ geofenceEvents # <<>>

\* C20: a zone is listed in currentZones exactly when the point is no farther
\* from its center than its radius (one step of latitude is 100 m).
C20_ClosedDisk ==
  \A r \in Reqs : Finished(r) =>
     LET holding == SelectSeq(activeGeofences[r],
                      LAMBDA g : 100 * Abs(point[r].latitude - g.latitude) <= g.radius)
     IN  currentZones[r] = [i \in 1..Len(holding) |-> holding[i].name]

\* The point is at the radius of one zone, which is listed, and beyond the
\* radius of another, which is not.
C20_Witness ==
  \E r \in Reqs : \E i, j \in 1..Len(activeGeofences[r]) :
     LET g == activeGeofences[r][i]
         h == activeGeofences[r][j]
     IN  /\ Finished(r)
         /\ 100 * Abs(point[r].latitude - g.latitude) = g.radius
         /\ g.name \in Range(currentZones[r])
         /\ 100 * Abs(point[r].latitude - h.latitude) > h.radius
         /\ h.name \notin Range(currentZones[r])

\* C14: whenever no deletion is in progress, every row of the events table
\* is of a geofence that the geofences table holds.
C14_CascadeOnDelete ==
  IsNone(del) =>
    \A i \in 1..Len(geofenceEvents) :
       \E k \in 1..Len(geofences) : geofences[k].id = geofenceEvents[i].geofenceId

\* a is the beginning of b.
IsPrefix(a, b) == Len(a) <= Len(b) /\ SubSeq(b, 1, Len(a)) = a

\* C15: a step of a check request leaves the geofences table as it is and
\* the events table with all its rows, unchanged and in place; rows leave the
\* events table only in the step of DELETE /:id that removes the rows of its
\* geofence, and then exactly those.
C15_EvaluationOnlyAppends ==
  [][ /\ (reqVars' # reqVars \/ last' # last)
         => /\ geofences' = geofences
            /\ IsPrefix(geofenceEvents, geofenceEvents')
      /\ ~IsPrefix(geofenceEvents, geofenceEvents')
         => /\ ~IsNone(del)
            /\ del.pc = "deleteEvents"
            /\ Facts(geofenceEvents') =
                 Facts(SelectSeq(geofenceEvents, LAMBDA e : e.geofenceId # del.id)) ]_vars

\* A check request has appended an exit row after the enter row of the same
\* pair, which is still in the table.
C15_Witness ==
  \E r \in Reqs :
     /\ Finished(r)
     /\ EventTypes(events[r], "g1") = <<"exit">>
     /\ startState[r].geofenceEvents # <<>>
     /\ IsPrefix(startState[r].geofenceEvents, geofenceEvents)
     /\ Len(geofenceEvents) = Len(startState[r].geofenceEvents) + 1

\* C19: a PATCH or DELETE by a parent who is not the creator of the geofence
\* is answered 403 and changes no geofence and no event, and no DELETE of
\* another parent than the creator ever gets to its two delete steps.
C19_OnlyCreatorMutates ==
  [][ /\ ( /\ answer' # answer
           /\ \E k \in 1..Len(geofences) :
                 geofences[k].id = answer'.id /\ geofences[k].userId # answer'.user )
         => /\ answer'.status = 403
            /\ geofences' = geofences
            /\ geofenceEvents' = geofenceEvents
            /\ del' = del
      /\ ~IsNone(del')
         => \A k \in 1..Len(geofences') :
               geofences'[k].id = del'.id => geofences'[k].userId = del'.user ]_vars

\* The other parent of the creator's family was refused the deletion of a
\* zone that has an event.
C19_Witness ==
  /\ ~IsNone(answer)
  /\ answer.op = "delete"
  /\ answer.user = "p3"
  /\ answer.status = 403
  /\ \E k \in 1..Len(geofences) : geofences[k].id = answer.id
  /\ \E i \in 1..Len(geofenceEvents) : geofenceEvents[i].geofenceId = answer.id

\* C21: a zone that passes the other filters is evaluated exactly when it has
\* no schedule, or the weekday of the clock is one of its schedule's days and
\* the time of day lies from startTime to endTime, both ends included; the
\* point of the request plays no part.
C21_ScheduleWindow ==
  \A r \in Reqs : pc[r] \in {"findEvents", "loop"} =>
     \A k \in 1..Len(geofences) :
        LET g == geofences[k]
            now == clock[r].hours * 60 + clock[r].minutes
        IN  ( /\ g.isActive /\ g.familyId = user[r].familyId
              /\ (g.childId = NULL \/ g.childId = user[r].id) )
            => ( (\E i \in 1..Len(activeGeofences[r]) : activeGeofences[r][i] = g)
                 <=> \/ IsNone(g.schedule)
                     \/ /\ clock[r].day \in g.schedule.days
                        /\ ParseMinutes(g.schedule.startTime) <= now
                        /\ now <= ParseMinutes(g.schedule.endTime) )

\* At 17:00 sharp on a Monday, from a point outside it, the zone open from
\* 08:00 to 17:00 is evaluated.
C21_Witness ==
  \E r \in Reqs : \E i \in 1..Len(activeGeofences[r]) :
     LET g == activeGeofences[r][i] IN
     /\ Finished(r)
     /\ ~IsNone(g.schedule)
     /\ clock[r].hours * 60 + clock[r].minutes = ParseMinutes(g.schedule.endTime)
     /\ ~Inside(point[r], g)
     /\ EventTypes(events[r], g.id) = <<"exit">>

\* C29: a zone whose schedule starts later in the day than it ends is never
\* evaluated, at no clock: it gets no event, no currentZones entry, and the
\* table never holds a row of it.
C29_MidnightWindowNeverActive ==
  \A k \in 1..Len(geofences) :
     LET g == geofences[k] IN
     ( /\ ~IsNone(g.schedule)
       /\ ParseMinutes(g.schedule.startTime) > ParseMinutes(g.schedule.endTime) )
     => /\ \A i \in 1..Len(geofenceEvents) : geofenceEvents[i].geofenceId # g.id
        /\ \A r \in Reqs : pc[r] \in {"findEvents", "loop"} =>
              /\ \A i \in 1..Len(activeGeofences[r]) : activeGeofences[r][i].id # g.id
              /\ Silent(r, g)

\* At 03:00 on a listed day, from a point inside it, the zone open from 22:00
\* to 06:00 is passed over while another zone at the same place is entered.
C29_Witness ==
  \E r \in Reqs : \E k \in 1..Len(geofences) :
     LET g == geofences[k] IN
     /\ Finished(r)
     /\ ~IsNone(g.schedule)
     /\ ParseMinutes(g.schedule.startTime) > ParseMinutes(g.schedule.endTime)
     /\ g.isActive /\ g.familyId = user[r].familyId
     /\ clock[r].day \in g.schedule.days
     /\ clock[r].hours * 60 + clock[r].minutes < ParseMinutes(g.schedule.endTime)
     /\ Inside(point[r], g)
     /\ events[r] # <<>>

\* The table without its dwell rows.
WithoutDwell(log) == RowsOf(log, {i \in 1..Len(log) : log[i].eventType # "dwell"})

WithoutOrphans(log, table) ==
  RowsOf(log, {i \in 1..Len(log) : \E k \in 1..Len(table) : table[k].id = log[i].geofenceId})

\* C23: a request that runs while no geofence is deleted returns no event and
\* appends no row for a geofence that is gone, and returns the events and the
\* currentZones, and appends the rows, that it gives on the table it found
\* with the rows of geofences that are gone taken out.
C23_OrphanSkipped ==
  \A r \in Reqs :
     (Finished(r) /\ IsNone(del) /\ geofences = startState[r].geofences) =>
        LET c == user[r].id
            known == WithoutOrphans(startState[r].geofenceEvents, geofences)
        IN  /\ \A i \in 1..Len(events[r]) :
                  \E k \in 1..Len(geofences) : geofences[k].id = events[r][i].geofenceId
            /\ \E lastEvents \in LastEvents(known, c, Len(activeGeofences[r])) :
                  LET res == Alone(activeGeofences[r], BuildLastStateMap(lastEvents),
                                   point[r], c, 1)
                  IN  /\ events[r] = res.events
                      /\ currentZones[r] = res.currentZones
                      /\ Facts(AppendedSince(r)) = res.rows

\* The orders in which n zones can be taken.
Orders(n) == {f \in [1..n -> 1..n] : \A i, j \in 1..n : f[i] = f[j] => i = j}

\* C24: the map of last known states is not written while the loop runs, an
\* iteration emits exactly when the state read before the loop, the point and
\* the zone's flags say so, and a finished loop has returned the set of
\* events, listed the set of zones and appended the set of rows that the
\* loop gives on its zones taken in any other order.
C24_OrderIndependent ==
  [][\A r \in Reqs :
       /\ (pc[r] = "loop" /\ pc'[r] = "loop") =>
            /\ lastStateMap'[r] = lastStateMap[r]
            /\ LET g == activeGeofences[r][idx[r]]
                   lastState == MapGet(lastStateMap[r], g.id)
               IN  Len(events'[r]) = Len(events[r]) +
                     (IF \/ Inside(point[r], g) /\ lastState # "enter" /\ g.notifyEnter
                         \/ ~Inside(point[r], g) /\ lastState = "enter" /\ g.notifyExit
                        THEN 1 ELSE 0)
       /\ Finished(r)' =>
            \A f \in Orders(Len(activeGeofences'[r])) :
               LET res == Alone([i \in 1..Len(activeGeofences'[r]) |->
                                   activeGeofences'[r][f[i]]],
                                lastStateMap'[r], point'[r], user'[r].id, 1)
               IN  /\ Range(res.events) = Range(events'[r])
                   /\ Range(res.currentZones) = Range(currentZones'[r])
                   /\ Range(res.rows) = Range(Facts(AppendedSince(r)'))]_vars

\* The point is in two zones, the first left before and entered again now,
\* the second never seen before: both get their enter.
C24_Witness ==
  \E r \in Reqs :
     /\ Finished(r)
     /\ Len(activeGeofences[r]) = 2
     /\ MapGet(lastStateMap[r], activeGeofences[r][1].id) = "exit"
     /\ MapGet(lastStateMap[r], activeGeofences[r][2].id) = "undefined"
     /\ Len(events[r]) = 2

\* C25: the events table changes only by one row appended in a loop iteration
\* of a request; the row has the caller as childId, type enter or exit, the
\* point of the request, and the id of a zone that the request read from the
\* table switched on, of the caller's family, for every child or for the
\* caller, and with no schedule or a schedule that holds the request's clock.
C25_AppendedRows ==
  [][geofenceEvents' # geofenceEvents =>
       \E r \in Reqs :
          /\ pc[r] = "loop" /\ idx'[r] = idx[r] + 1
          /\ Len(geofenceEvents') = Len(geofenceEvents) + 1
          /\ SubSeq(geofenceEvents', 1, Len(geofenceEvents)) = geofenceEvents
          /\ LET e == geofenceEvents'[Len(geofenceEvents')] IN
             /\ e.childId = user[r].id
             /\ e.eventType \in {"enter", "exit"}
             /\ e.latitude = point[r].latitude /\ e.longitude = point[r].longitude
             /\ \E k \in 1..Len(startState[r].geofences) :
                   LET g == startState[r].geofences[k] IN
                   /\ g.id = e.geofenceId
                   /\ geofences[k] = g
                   /\ g.isActive
                   /\ g.familyId = user[r].familyId
                   /\ (g.childId = NULL \/ g.childId = user[r].id)
                   /\ (IsNone(g.schedule) \/ ~ScheduleExcludes(g.schedule, clock[r]))]_vars

\* A request has appended a row for a zone with a schedule while a zone of
\* its family around the same point is switched off.
C25_Witness ==
  \E r \in Reqs : \E k, n \in 1..Len(geofences) :
     /\ Finished(r)
     /\ Len(AppendedSince(r)) = 1
     /\ AppendedSince(r)[1].geofenceId = geofences[n].id
     /\ ~IsNone(geofences[n].schedule)
     /\ ~geofences[k].isActive
     /\ geofences[k].familyId = user[r].familyId
     /\ Inside(point[r], geofences[k])

\* C26: every exit row of the table has, before it, an enter row of the same
\* (geofence, child) pair with no enter or exit row of the pair between the
\* two (check requests do not overlap).
C26_ExitOnlyAfterEnter ==
  \A j \in 1..Len(geofenceEvents) :
     geofenceEvents[j].eventType = "exit" =>
       \E i \in 1..(j - 1) :
          /\ geofenceEvents[i].eventType = "enter"
          /\ geofenceEvents[i].geofenceId = geofenceEvents[j].geofenceId
          /\ geofenceEvents[i].childId = geofenceEvents[j].childId
          /\ \A k \in (i + 1)..(j - 1) :
                ~(/\ geofenceEvents[k].geofenceId = geofenceEvents[j].geofenceId
                  /\ geofenceEvents[k].childId = geofenceEvents[j].childId
                  /\ IsState(geofenceEvents[k]))

\* C27: a zone with notifyEnter off and notifyExit on (its flags are never
\* changed) has no exit row in the table, of no child, and no request reads
\* enter as its last known state.
C27_NoExitWithoutNotifiedEnter ==
  \A k \in 1..Len(geofences) :
     (~geofences[k].notifyEnter /\ geofences[k].notifyExit) =>
        /\ \A i \in 1..Len(geofenceEvents) :
              geofenceEvents[i].geofenceId = geofences[k].id
                => geofenceEvents[i].eventType # "exit"
        /\ \A r \in Reqs : pc[r] = "loop" =>
              /\ MapGet(lastStateMap[r], geofences[k].id) # "enter"
              /\ \A i \in 1..Len(events[r]) :
                    events[r][i].geofenceId = geofences[k].id
                      => events[r][i].eventType # "exit"

\* The child was seen inside such a zone (a row of a zone made later was
\* appended from a point in it) and is now seen outside it, leaving another
\* zone with an exit event.
C27_Witness ==
  \E r \in Reqs : \E k, n \in 1..Len(geofences) : \E i \in 1..Len(geofenceEvents) :
     /\ Finished(r)
     /\ ~geofences[k].notifyEnter /\ geofences[k].notifyExit
     /\ k < n
     /\ geofenceEvents[i].geofenceId = geofences[n].id
     /\ geofenceEvents[i].childId = user[r].id
     /\ Inside(geofenceEvents[i], geofences[k])
     /\ ~Inside(point[r], geofences[k])
     /\ \E j \in 1..Len(activeGeofences[r]) : activeGeofences[r][j].id = geofences[k].id
     /\ EventTypes(events[r], geofences[n].id) = <<"exit">>

\* C28: a loop iteration adds at most one event, for its own zone, and at
\* most one currentZones entry: with an enter event the zone's name, with an
\* exit event nothing; so a request holds at most one event per zone it
\* evaluates and no more events than zones.
C28_OneEventPerGeofence ==
  [][\A r \in Reqs :
       /\ (pc[r] = "loop" /\ idx'[r] = idx[r] + 1) =>
            LET g == activeGeofences[r][idx[r]]
                added == SubSeq(events'[r], Len(events[r]) + 1, Len(events'[r]))
                listed == SubSeq(currentZones'[r], Len(currentZones[r]) + 1,
                                 Len(currentZones'[r]))
            IN  /\ Len(added) <= 1
                /\ \A i \in 1..Len(added) :
                      /\ added[i].geofenceId = g.id
                      /\ added[i].eventType = "enter" => listed = <<g.name>>
                      /\ added[i].eventType = "exit" => listed = <<>>
       /\ pc'[r] = "loop" =>
            /\ Len(events'[r]) <= Len(activeGeofences'[r])
            /\ \A i \in 1..Len(activeGeofences'[r]) :
                  Len(EventsFor(events'[r], activeGeofences'[r][i].id)) <= 1]_vars

\* One request has an enter event for a zone it lists and an exit event for
\* a zone it does not list.
C28_Witness ==
  \E r \in Reqs : \E i, j \in 1..Len(events[r]) :
     /\ Finished(r)
     /\ events[r][i].eventType = "enter"
     /\ events[r][i].geofenceName \in Range(currentZones[r])
     /\ events[r][j].eventType = "exit"
     /\ events[r][j].geofenceName \notin Range(currentZones[r])

\* The columns of a geofence row that no PATCH may change.
Identity(g) == [id |-> g.id, userId |-> g.userId, familyId |-> g.familyId,
                childId |-> g.childId, type |-> g.type]

\* C30: a step that keeps the rows of the geofences table in number, as
\* every PATCH does, keeps the id, creator, family, child and type of each,
\* and the step in which a PATCH is answered leaves the events table as it is.
C30_PatchFrame ==
  [][ /\ Len(geofences') = Len(geofences) =>
           \A k \in 1..Len(geofences) : Identity(geofences'[k]) = Identity(geofences[k])
      /\ (answer' # answer /\ answer'.op = "patch") =>
           /\ Len(geofences') = Len(geofences)
           /\ geofenceEvents' = geofenceEvents ]_vars

\* The creator's PATCH with a body naming another id, creator, family, child
\* and type was answered 200: the row has its new name and its old identity,
\* and its events are in the table.
C30_Witness ==
  /\ ~IsNone(answer)
  /\ answer.op = "patch" /\ answer.status = 200
  /\ \E k \in 1..Len(geofences) :
        /\ geofences[k].id = answer.id
        /\ geofences[k].name = "Den"
        /\ geofences[k].userId = answer.user
        /\ \E i \in 1..Len(geofenceEvents) : geofenceEvents[i].geofenceId = answer.id

====
